---- MODULE Spec2Model ----
(***************************************************************************)
(* Model of ZhipuQAChain (llm-project/qa_chain.py) and of the session that *)
(* drives it (llm-project/app.py): the conversational retrieval pipeline,  *)
(* its streamed answer generator and the conversation-history operations.  *)
(*                                                                         *)
(* Text is modelled as a sequence of one-character strings, so that        *)
(* str.strip() and the concatenation of fragments are computed, not        *)
(* assumed.  Temperatures are in tenths (7 stands for 0.7).                *)
(***************************************************************************)
EXTENDS Integers, Sequences, FiniteSets, TLC

(* ------------------------------ bounds -------------------------------- *)

\* stream_answer calls made in one session
MaxCalls == 2

\* generator objects: SeqStreams is the one generator the Streamlit script
\* drains at a time, Streams the two generators of the interleaved use.
SeqStreams == {1}
Streams == {1, 2}

\* questions a caller passes: two blank ones, two non-blank ones, one of them
\* with leading whitespace (the raw text differs from the stripped text)
Questions == { <<>>, <<" ">>, <<"a">>, <<" ", "b">> }

\* what the chat model's streamed generation can deliver: sequences of fragments
Responses == { <<>>,
               << <<"x">> >>,
               << <<"y">>, <<"x", "x">> >> }

\* what the chat model's condensation call can return: a standalone query,
\* different from every question
CondenseOutputs == { <<"c">> }

\* lists a caller hands to the constructor as chat_history
InitHistories == { <<>>,
                   << <<<<"a">>, <<"x">>>>, <<<<"a">>, <<"y">>>> >> }

\* values of the sidebar's sliders
TopKs == {2, 4}
Temperatures == {0, 7}

\* chunks persisted in the vector store
StoreSize == 6

\* constructor arguments of the session's chain
InitTemperature == 7
InitTopK == 4

(* --------------------------- pure functions --------------------------- *)

IsSpace(c) == c = " "

RECURSIVE LStrip(_)
LStrip(t) == IF t /= <<>> /\ IsSpace(Head(t)) THEN LStrip(Tail(t)) ELSE t

RECURSIVE RStrip(_)
RStrip(t) ==
  IF t /= <<>> /\ IsSpace(t[Len(t)]) THEN RStrip(SubSeq(t, 1, Len(t) - 1)) ELSE t

\* str.strip()
Strip(t) == RStrip(LStrip(t))

\* variant: the guard tests the question against the empty string, without strip()
IsEmptyString(question) == question = <<>>

\* not question.strip()
IsBlank(question) == Strip(question) = <<>>

\* the loop that renders the history as alternating ("human", q), ("ai", a)
RECURSIVE FormatHistory(_)
FormatHistory(h) ==
  IF h = <<>> THEN <<>>
  ELSE << <<"human", h[1][1]>>, <<"ai", h[1][2]>> >> \o FormatHistory(Tail(h))

\* lst[start:] with Python's clamping of the start index
PySliceFrom(lst, start) ==
  LET n == Len(lst)
      lo == IF start < 0 THEN (IF n + start < 0 THEN 0 ELSE n + start)
            ELSE (IF start > n THEN n ELSE start)
  IN SubSeq(lst, lo + 1, n)

\* similarity search with search_kwargs {'k': k} on a store of n chunks: the
\* k best-ranked chunks, fewer when the store holds fewer
Retriever(k, n) == [i \in 1..(IF k < n THEN k ELSE n) |-> i]

\* variant: the branch tests "chat_history is None", false for every list
BranchHistoryIsNone(formatted) == FALSE

\* variant: the branch looks up a key the input does not hold, true for every input
BranchMissingKey(formatted) == TRUE

\* not x.get("chat_history", False)
BranchNoHistory(formatted) == formatted = <<>>

\* provider calls as the provider sees them: what was sent, whether the call
\* raised, and what it returned (nothing when it raised; the generation call
\* returns its stream, delivered fragment by fragment)
CondenseCall(input, formatted, error, output) ==
  [op |-> "condense", input |-> input, chat_history |-> formatted,
   error |-> error, output |-> output]

RetrieveCall(q, k, error, output) ==
  [op |-> "retrieve", query |-> q, k |-> k, error |-> error, output |-> output]

GenerateCall(input, formatted, ctx, temp) ==
  [op |-> "generate", input |-> input, chat_history |-> formatted,
   context |-> ctx, temperature |-> temp, error |-> FALSE, output |-> <<>>]

(* ------------------------------- state -------------------------------- *)

VARIABLES
  chat_history,       \* contents of the list self.chat_history refers to
  caller_list,        \* contents of the list object given to the constructor
  aliased,            \* self.chat_history is that very list object
  top_k,              \* self.top_k
  temperature,        \* self.temperature
  chain_k,            \* k bound into the retriever by _build_chain
  chain_temperature,  \* temperature bound into the llm by _build_chain
  ncalls,             \* stream_answer calls made so far
  pc,                 \* position of each generator
  question,           \* its argument
  formatted_history,  \* its local formatted_history
  query,              \* text piped into the retriever
  context,            \* documents its retrieval returned
  full_answer,        \* its local full_answer
  yielded,            \* fragments it has yielded to its consumer
  calls,              \* provider calls it has issued, in order
  raised,             \* exception that left it, if any
  truncate_raised     \* exception that left the last truncate_history call

shared == <<chat_history, caller_list, aliased>>
config == <<top_k, temperature, chain_k, chain_temperature>>
locals == <<question, formatted_history, query, context, full_answer, yielded, calls, raised>>
vars == <<shared, config, ncalls, pc, locals, truncate_raised>>

Active == {"created", "condense", "retrieve", "generate", "streaming", "yielded"}
Ended == {"idle", "done", "failed", "cancelled"}

Init ==
  /\ chat_history \in InitHistories
  /\ caller_list = chat_history
  /\ aliased = TRUE
  /\ top_k = InitTopK
  /\ temperature = InitTemperature
  /\ chain_k = InitTopK
  /\ chain_temperature = InitTemperature
  /\ ncalls = 0
  /\ pc = [s \in Streams |-> "idle"]
  /\ question = [s \in Streams |-> <<>>]
  /\ formatted_history = [s \in Streams |-> <<>>]
  /\ query = [s \in Streams |-> <<>>]
  /\ context = [s \in Streams |-> <<>>]
  /\ full_answer = [s \in Streams |-> <<>>]
  /\ yielded = [s \in Streams |-> <<>>]
  /\ calls = [s \in Streams |-> <<>>]
  /\ raised = [s \in Streams |-> "none"]
  /\ truncate_raised = "none"

(* ---------------------- stream_answer, step by step -------------------- *)

\* stream_answer(question): the call only creates the generator object; no
\* statement of the body runs before the consumer asks for the first fragment
stream_answer(s, q) ==
  /\ pc[s] \in Ended
  /\ ncalls < MaxCalls
  /\ ncalls' = ncalls + 1
  /\ pc' = [pc EXCEPT ![s] = "created"]
  /\ question' = [question EXCEPT ![s] = q]
  /\ formatted_history' = [formatted_history EXCEPT ![s] = <<>>]
  /\ query' = [query EXCEPT ![s] = <<>>]
  /\ context' = [context EXCEPT ![s] = <<>>]
  /\ full_answer' = [full_answer EXCEPT ![s] = <<>>]
  /\ yielded' = [yielded EXCEPT ![s] = <<>>]
  /\ calls' = [calls EXCEPT ![s] = <<>>]
  /\ raised' = [raised EXCEPT ![s] = "none"]
  /\ UNCHANGED <<shared, config, truncate_raised>>

\* first resumption, blank question: return at once
BeginBlank(s) ==
  /\ pc[s] = "created"
  /\ IsBlank(question[s])
  /\ pc' = [pc EXCEPT ![s] = "done"]
  /\ UNCHANGED <<shared, config, ncalls, locals, truncate_raised>>

\* first resumption, non-blank question: format the history as it is now, set
\* up the chain's stream, and enter the branch of retrieve_docs
Begin(s) ==
  /\ pc[s] = "created"
  /\ ~IsBlank(question[s])
  /\ formatted_history' =
       [formatted_history EXCEPT ![s] = FormatHistory(chat_history)]
  /\ IF BranchNoHistory(FormatHistory(chat_history))
     THEN /\ query' = [query EXCEPT ![s] = question[s]]
          /\ pc' = [pc EXCEPT ![s] = "retrieve"]
     ELSE /\ UNCHANGED query
          /\ pc' = [pc EXCEPT ![s] = "condense"]
  /\ UNCHANGED <<shared, config, ncalls, question, context, full_answer,
                 yielded, calls, raised, truncate_raised>>

\* condense_question_prompt | llm | StrOutputParser(): one blocking chat-model
\* call; its text is the query handed to the retriever
Condense(s, out) ==
  /\ pc[s] = "condense"
  /\ calls' = [calls EXCEPT ![s] =
       Append(@, CondenseCall(question[s], formatted_history[s], FALSE, out))]
  /\ query' = [query EXCEPT ![s] = out]
  /\ pc' = [pc EXCEPT ![s] = "retrieve"]
  /\ UNCHANGED <<shared, config, ncalls, question, formatted_history, context,
                 full_answer, yielded, raised, truncate_raised>>

\* the condensation call raises: nothing catches it
CondenseFails(s) ==
  /\ pc[s] = "condense"
  /\ calls' = [calls EXCEPT ![s] =
       Append(@, CondenseCall(question[s], formatted_history[s], TRUE, <<>>))]
  /\ raised' = [raised EXCEPT ![s] = "ProviderError"]
  /\ pc' = [pc EXCEPT ![s] = "failed"]
  /\ UNCHANGED <<shared, config, ncalls, question, formatted_history, query,
                 context, full_answer, yielded, truncate_raised>>

\* ... | retriever: similarity search with the k bound by _build_chain
Retrieve(s) ==
  /\ pc[s] = "retrieve"
  /\ calls' = [calls EXCEPT ![s] =
       Append(@, RetrieveCall(query[s], chain_k, FALSE, Retriever(chain_k, StoreSize)))]
  /\ context' = [context EXCEPT ![s] = Retriever(chain_k, StoreSize)]
  /\ pc' = [pc EXCEPT ![s] = "generate"]
  /\ UNCHANGED <<shared, config, ncalls, question, formatted_history, query,
                 full_answer, yielded, raised, truncate_raised>>

RetrieveFails(s) ==
  /\ pc[s] = "retrieve"
  /\ calls' = [calls EXCEPT ![s] =
       Append(@, RetrieveCall(query[s], chain_k, TRUE, <<>>))]
  /\ raised' = [raised EXCEPT ![s] = "ProviderError"]
  /\ pc' = [pc EXCEPT ![s] = "failed"]
  /\ UNCHANGED <<shared, config, ncalls, question, formatted_history, query,
                 context, full_answer, yielded, truncate_raised>>

\* qa_prompt | llm | StrOutputParser(), streamed: the generation call is issued
Generate(s) ==
  /\ pc[s] = "generate"
  /\ calls' = [calls EXCEPT ![s] = Append(@,
       GenerateCall(question[s], formatted_history[s], context[s], chain_temperature))]
  /\ pc' = [pc EXCEPT ![s] = "streaming"]
  /\ UNCHANGED <<shared, config, ncalls, question, formatted_history, query,
                 context, full_answer, yielded, raised, truncate_raised>>

\* the provider can still deliver fragment f after what it has delivered
CanDeliver(s, f) ==
  \E r \in Responses :
    /\ Len(r) > Len(yielded[s])
    /\ SubSeq(r, 1, Len(yielded[s]) + 1) = Append(yielded[s], f)

Fragments == UNION { {r[i] : i \in 1..Len(r)} : r \in Responses }

\* a chunk with the key "answer" arrives: accumulate it and yield it
Fragment(s, f) ==
  /\ pc[s] \in {"streaming", "yielded"}
  /\ CanDeliver(s, f)
  /\ full_answer' = [full_answer EXCEPT ![s] = @ \o f]
  /\ yielded' = [yielded EXCEPT ![s] = Append(@, f)]
  /\ pc' = [pc EXCEPT ![s] = "yielded"]
  /\ UNCHANGED <<shared, config, ncalls, question, formatted_history, query,
                 context, calls, raised, truncate_raised>>

\* variant: the turn records question.strip() instead of the question
StreamEndRecordsStripped(s) ==
  /\ pc[s] \in {"streaming", "yielded"}
  /\ yielded[s] \in Responses
  /\ chat_history' = Append(chat_history, <<Strip(question[s]), full_answer[s]>>)
  /\ caller_list' = IF aliased
                    THEN Append(caller_list, <<Strip(question[s]), full_answer[s]>>)
                    ELSE caller_list
  /\ pc' = [pc EXCEPT ![s] = "done"]
  /\ UNCHANGED <<aliased, config, ncalls, locals, truncate_raised>>

\* variant: the history is rebuilt from the turns read when the call began,
\* plus the new turn, instead of appending to the current list
StreamEndWritesBackSnapshot(s) ==
  /\ pc[s] \in {"streaming", "yielded"}
  /\ yielded[s] \in Responses
  /\ chat_history' =
       Append([i \in 1..(Len(formatted_history[s]) \div 2) |->
                 <<formatted_history[s][2 * i - 1][2], formatted_history[s][2 * i][2]>>],
              <<question[s], full_answer[s]>>)
  /\ aliased' = FALSE
  /\ pc' = [pc EXCEPT ![s] = "done"]
  /\ UNCHANGED <<caller_list, config, ncalls, locals, truncate_raised>>

\* the stream is exhausted: self.chat_history.append((question, full_answer)),
\* on the list self.chat_history refers to at this moment
StreamEnd(s) ==
  /\ pc[s] \in {"streaming", "yielded"}
  /\ yielded[s] \in Responses
  /\ chat_history' = Append(chat_history, <<question[s], full_answer[s]>>)
  /\ caller_list' = IF aliased
                    THEN Append(caller_list, <<question[s], full_answer[s]>>)
                    ELSE caller_list
  /\ pc' = [pc EXCEPT ![s] = "done"]
  /\ UNCHANGED <<aliased, config, ncalls, locals, truncate_raised>>

\* variant: the append sits in a finally clause, so a broken stream records
\* the partial answer
StreamErrorRecordsPartial(s) ==
  /\ pc[s] \in {"streaming", "yielded"}
  /\ raised' = [raised EXCEPT ![s] = "ProviderError"]
  /\ pc' = [pc EXCEPT ![s] = "failed"]
  /\ chat_history' = Append(chat_history, <<question[s], full_answer[s]>>)
  /\ caller_list' = IF aliased
                    THEN Append(caller_list, <<question[s], full_answer[s]>>)
                    ELSE caller_list
  /\ UNCHANGED <<aliased, config, ncalls, question, formatted_history, query,
                 context, full_answer, yielded, calls, truncate_raised>>

\* the generation call or its stream raises before the end
StreamError(s) ==
  /\ pc[s] \in {"streaming", "yielded"}
  /\ raised' = [raised EXCEPT ![s] = "ProviderError"]
  /\ pc' = [pc EXCEPT ![s] = "failed"]
  /\ UNCHANGED <<shared, config, ncalls, question, formatted_history, query,
                 context, full_answer, yielded, calls, truncate_raised>>

\* the consumer abandons the generator where it is suspended (close(), or the
\* last reference dropped): GeneratorExit at the yield, or never started
Cancel(s) ==
  /\ pc[s] \in {"created", "yielded"}
  /\ pc' = [pc EXCEPT ![s] = "cancelled"]
  /\ UNCHANGED <<shared, config, ncalls, locals, truncate_raised>>

(* ------------------------- history operations -------------------------- *)

\* self.chat_history.clear(): empties the list object in place
clear_history ==
  /\ chat_history' = <<>>
  /\ caller_list' = IF aliased THEN <<>> ELSE caller_list
  /\ UNCHANGED <<aliased, config, ncalls, pc, locals, truncate_raised>>

TruncateArgs == (0 - 1)..(MaxCalls + 1)

\* variant: the slice is [:max_length], which keeps the oldest turns
truncate_history_keeps_oldest(max_length) ==
  /\ IF Len(chat_history) > max_length
     THEN /\ chat_history' =
               SubSeq(chat_history, 1,
                      IF max_length >= 0 THEN max_length
                      ELSE IF Len(chat_history) + max_length < 0 THEN 0
                      ELSE Len(chat_history) + max_length)
          /\ aliased' = FALSE
     ELSE UNCHANGED <<chat_history, aliased>>
  /\ truncate_raised' = "none"
  /\ UNCHANGED <<caller_list, config, ncalls, pc, locals>>

\* truncate_history(max_length): rebinds self.chat_history to a new list, the
\* slice [-max_length:], when the history is longer than max_length
truncate_history(max_length) ==
  /\ IF Len(chat_history) > max_length
     THEN /\ chat_history' = PySliceFrom(chat_history, 0 - max_length)
          /\ aliased' = FALSE
     ELSE UNCHANGED <<chat_history, aliased>>
  /\ truncate_raised' = "none"
  /\ UNCHANGED <<caller_list, config, ncalls, pc, locals>>

(* ------------------------------ sidebar -------------------------------- *)

\* app.py: if temperature != qa_chain.temperature: qa_chain.temperature = ...
SetTemperature(t) ==
  /\ t /= temperature
  /\ temperature' = t
  /\ UNCHANGED <<shared, top_k, chain_k, chain_temperature, ncalls,
                 pc, locals, truncate_raised>>

\* app.py: if top_k != qa_chain.top_k: qa_chain.top_k = top_k
SetTopK(k) ==
  /\ k /= top_k
  /\ top_k' = k
  /\ UNCHANGED <<shared, temperature, chain_k, chain_temperature,
                 ncalls, pc, locals, truncate_raised>>

(* --------------------------- specifications ---------------------------- *)

\* no generator is between its creation and its end
Quiet == \A s \in Streams : pc[s] \in Ended

\* The session of app.py: one script run at a time; the sidebar acts, then the
\* question's generator is drained by st.write_stream before anything else runs.
Next ==
  \/ \E s \in SeqStreams, q \in Questions : Quiet /\ stream_answer(s, q)
  \/ \E s \in SeqStreams : BeginBlank(s)
  \/ \E s \in SeqStreams : Begin(s)
  \/ \E s \in SeqStreams, out \in CondenseOutputs : Condense(s, out)
  \/ \E s \in SeqStreams : CondenseFails(s)
  \/ \E s \in SeqStreams : Retrieve(s)
  \/ \E s \in SeqStreams : RetrieveFails(s)
  \/ \E s \in SeqStreams : Generate(s)
  \/ \E s \in SeqStreams, f \in Fragments : Fragment(s, f)
  \/ \E s \in SeqStreams : StreamEnd(s)
  \/ \E s \in SeqStreams : StreamError(s)
  \/ \E s \in SeqStreams : Cancel(s)
  \/ Quiet /\ clear_history
  \/ \E n \in TruncateArgs : Quiet /\ truncate_history(n)
  \/ \E t \in Temperatures : Quiet /\ SetTemperature(t)
  \/ \E k \in TopKs : Quiet /\ SetTopK(k)

Spec == Init /\ [][Next]_vars

\* Two generators of the same chain, each created once and drained in any
\* interleaving, with history operations at any point between their steps.
NextConc ==
  \/ \E s \in Streams, q \in Questions : pc[s] = "idle" /\ stream_answer(s, q)
  \/ \E s \in Streams : BeginBlank(s)
  \/ \E s \in Streams : Begin(s)
  \/ \E s \in Streams, out \in CondenseOutputs : Condense(s, out)
  \/ \E s \in Streams : CondenseFails(s)
  \/ \E s \in Streams : Retrieve(s)
  \/ \E s \in Streams : RetrieveFails(s)
  \/ \E s \in Streams : Generate(s)
  \/ \E s \in Streams, f \in Fragments : Fragment(s, f)
  \/ \E s \in Streams : StreamEnd(s)
  \/ \E s \in Streams : StreamError(s)
  \/ \E s \in Streams : Cancel(s)
  \/ clear_history
  \/ \E n \in TruncateArgs : truncate_history(n)

SpecConc == Init /\ [][NextConc]_vars

(* ------------------------------ properties ----------------------------- *)

\* the turns a formatted history was rendered from
Unformat(formatted) ==
  [i \in 1..(Len(formatted) \div 2) |->
     <<formatted[2 * i - 1][2], formatted[2 * i][2]>>]

\* concatenation of a sequence of fragments, in order
RECURSIVE Concat(_)
Concat(frs) == IF frs = <<>> THEN <<>> ELSE Head(frs) \o Concat(Tail(frs))

\* the last m elements of h, in their order
LastTurns(h, m) == [i \in 1..m |-> h[Len(h) - m + i]]

\* the text is empty or made of whitespace only
OnlyWhitespace(t) == \A i \in 1..Len(t) : t[i] = " "

Min(a, b) == IF a < b THEN a ELSE b

\* the kinds of the provider calls of generator s, in the order issued
Ops(s) == [i \in 1..Len(calls[s]) |-> calls[s][i].op]

IsPrefix(a, b) == Len(a) <= Len(b) /\ SubSeq(b, 1, Len(a)) = a

\* C1: a stream_answer call with a non-blank question that ends early, because
\* its consumer abandons it or because the condensation, retrieval or generation
\* call raises, leaves chat_history exactly as it was before the call (no turn,
\* no partial turn), and a provider error reaches the caller.
C1_AbortLeavesHistory ==
  [][\A s \in Streams :
       (pc[s] \in Active /\ pc'[s] \in {"failed", "cancelled"}
          /\ ~OnlyWhitespace(question[s]))
       => /\ chat_history' = chat_history
          /\ caller_list' = caller_list
          /\ pc[s] /= "created" => chat_history' = Unformat(formatted_history[s])
          /\ pc'[s] = "failed" => raised'[s] = "ProviderError"]_vars

\* a generation stream broke after a fragment had been delivered, with turns on
\* record
C1_Witness ==
  /\ pc[1] = "failed"
  /\ yielded[1] /= <<>>
  /\ Ops(1) = <<"condense", "retrieve", "generate">>
  /\ chat_history /= <<>>

\* C2: a stream_answer call with a non-blank question drained to exhaustion
\* leaves the history it found plus exactly one turn at the end, (the raw
\* question, the concatenation in arrival order of the fragments yielded); the
\* turn is appended by the step that ends the stream, after the last fragment
\* was yielded, and no earlier step of the call touches the history.
C2_DrainAppendsOneTurn ==
  [][\A s \in Streams :
       (pc[s] \in Active /\ ~OnlyWhitespace(question[s]))
       => IF pc'[s] = "done"
          THEN /\ chat_history' =
                    Append(Unformat(formatted_history[s]),
                           <<question[s], Concat(yielded[s])>>)
               /\ yielded'[s] = yielded[s]
               /\ yielded[s] \in Responses
          ELSE chat_history' = chat_history]_vars

\* a two-fragment answer to the question with leading whitespace was recorded
\* after the turns the constructor was given
C2_Witness ==
  /\ pc[1] = "done"
  /\ question[1] = <<" ", "b">>
  /\ yielded[1] = << <<"y">>, <<"x", "x">> >>
  /\ Len(chat_history) = 3
  /\ chat_history[3] = << <<" ", "b">>, <<"y", "x", "x">> >>

\* C8: stream_answer with an empty or whitespace-only question yields nothing,
\* issues no condensation, retrieval or generation call, raises nothing and
\* leaves chat_history unchanged, whatever the history.
C8_BlankQuestionNoOp ==
  [][\A s \in Streams :
       (pc'[s] /= "idle" /\ OnlyWhitespace(question'[s]))
       => /\ yielded'[s] = <<>>
          /\ calls'[s] = <<>>
          /\ raised'[s] = "none"
          /\ pc'[s] \in {"created", "done", "cancelled"}
          /\ (pc[s] \in Active \/ pc'[s] \in Active)
               => (chat_history' = chat_history /\ caller_list' = caller_list)]_vars

\* a whitespace-only question was run to its end on a non-empty history
C8_Witness ==
  /\ pc[1] = "done"
  /\ question[1] = <<" ">>
  /\ chat_history /= <<>>

\* the retriever was reached by generator s of a non-blank question
Started(s) == pc[s] \notin {"idle", "created"} /\ ~OnlyWhitespace(question[s])

\* C3: after the sidebar sets top_k (or temperature) on the chain, every later
\* question retrieves at most the new top_k chunks, with the new top_k as the
\* retriever's k, and calls the chat model with the new temperature.
C3_ConfigAffectsLaterQuestions ==
  \A s \in Streams :
    pc[s] \in Active =>
      /\ Len(context[s]) <= top_k
      /\ \A i \in 1..Len(calls[s]) :
           /\ calls[s][i].op = "retrieve" => calls[s][i].k = top_k
           /\ calls[s][i].op = "generate" => calls[s][i].temperature = temperature

\* C4: for a bound N >= 1, truncate_history(N) leaves the last min(len(H), N)
\* turns of the history H it found, in their order; nothing changes when
\* len(H) <= N.
C4_TruncateKeepsMostRecent ==
  [][\A n \in TruncateArgs :
       (n >= 1 /\ truncate_history(n))
       => /\ chat_history' = LastTurns(chat_history, Min(Len(chat_history), n))
          /\ Len(chat_history') = Min(Len(chat_history), n)
          /\ Len(chat_history) <= n => chat_history' = chat_history]_vars

\* the chain holds the two most recent of three or more turns, in their order:
\* the oldest ones were discarded from the list the caller still holds
C4_Witness ==
  /\ ~aliased
  /\ Len(caller_list) >= 3
  /\ Len(chat_history) = 2
  /\ chat_history = LastTurns(caller_list, 2)
  /\ chat_history[1] /= chat_history[2]

\* C5: truncate_history with a bound of 0 or a negative bound is rejected with
\* an input error and leaves chat_history unmodified.
C5_TruncateRejectsBadBound ==
  [][\A n \in TruncateArgs :
       (n <= 0 /\ truncate_history(n))
       => /\ chat_history' = chat_history
          /\ truncate_raised' = "InputError"]_vars

\* C6: when the history is empty as the question is processed, no condensation
\* call is issued, the retriever receives the raw question verbatim, and the
\* only chat-model call of the invocation is the generation call.
C6_EmptyHistoryNoCondensation ==
  \A s \in Streams :
    (Started(s) /\ formatted_history[s] = <<>>) =>
      /\ IsPrefix(Ops(s), <<"retrieve", "generate">>)
      /\ Len(calls[s]) >= 1 => calls[s][1].query = question[s]
      /\ pc[s] \in {"streaming", "yielded", "done"}
           => Ops(s) = <<"retrieve", "generate">>

\* a question with leading whitespace was answered on an empty history
C6_Witness ==
  /\ pc[1] = "done"
  /\ question[1] = <<" ", "b">>
  /\ formatted_history[1] = <<>>
  /\ Len(calls[1]) = 2
  /\ yielded[1] /= <<>>

\* C7: when the history is non-empty, one invocation issues exactly one
\* condensation call, then exactly one retrieval call whose query is the
\* condensation's output, then exactly one generation call whose human turn is
\* the raw question, in that order; none is repeated, and after a call that
\* raised no further call is issued.
C7_CondenseRetrieveGenerate ==
  \A s \in Streams :
    (Started(s) /\ formatted_history[s] /= <<>>) =>
      /\ IsPrefix(Ops(s), <<"condense", "retrieve", "generate">>)
      /\ pc[s] \in {"streaming", "yielded", "done"}
           => Ops(s) = <<"condense", "retrieve", "generate">>
      /\ Len(calls[s]) >= 1 =>
           /\ calls[s][1].input = question[s]
           /\ calls[s][1].chat_history = formatted_history[s]
      /\ Len(calls[s]) >= 2 => calls[s][2].query = calls[s][1].output
      /\ Len(calls[s]) >= 3 =>
           /\ calls[s][3].input = question[s]
           /\ calls[s][3].chat_history = formatted_history[s]
           /\ calls[s][3].context = calls[s][2].output
      /\ \A i \in 1..Len(calls[s]) :
           calls[s][i].error => (i = Len(calls[s]) /\ pc[s] = "failed")

\* a follow-up question was condensed, retrieved for and answered
C7_Witness ==
  /\ pc[1] = "done"
  /\ question[1] = <<" ", "b">>
  /\ Ops(1) = <<"condense", "retrieve", "generate">>
  /\ calls[1][2].query = <<"c">>
  /\ calls[1][3].input = <<" ", "b">>

\* C9: the step that exhausts a generator appends exactly one turn, its own
\* question with the concatenation of its own fragments, at the end of the
\* history as it is at that moment, whatever the other generator has done and
\* whatever clear_history or truncate_history did since its first fragment; no
\* other step of a generator changes the history.  Two drained generators
\* therefore leave two turns, in the order in which they were exhausted.
C9_InterleavedStreamsAppendOwnTurn ==
  [][/\ \A s \in Streams :
          (pc[s] \in Active /\ pc'[s] = "done" /\ ~OnlyWhitespace(question[s]))
          => /\ chat_history' =
                  Append(chat_history, <<question[s], Concat(yielded[s])>>)
             /\ \A t \in Streams \ {s} : pc'[t] = pc[t]
     /\ (pc' /= pc /\ \A s \in Streams : ~(pc[s] \in Active /\ pc'[s] = "done"))
          => chat_history' = chat_history]_vars

\* both generators began on the same two-turn history; the one with question
\* "a" was exhausted first, the one with question " b" second
C9_Witness ==
  /\ pc[1] = "done" /\ pc[2] = "done"
  /\ question[1] = <<" ", "b">> /\ question[2] = <<"a">>
  /\ formatted_history[1] = formatted_history[2]
  /\ Len(formatted_history[1]) = 4
  /\ yielded[1] = << <<"y">>, <<"x", "x">> >>
  /\ yielded[2] = << <<"x">> >>
  /\ Len(chat_history) = 4
  /\ chat_history[3] = << <<"a">>, <<"x">> >>
  /\ chat_history[4] = << <<" ", "b">>, <<"y", "x", "x">> >>

\* a generator's turn was appended to a history cleared after its first fragment
C9_WitnessCleared ==
  /\ pc[1] = "done"
  /\ Len(formatted_history[1]) = 4
  /\ chat_history = << <<question[1], Concat(yielded[1])>> >>
  /\ Len(yielded[1]) = 2

\* C10: the list given to the constructor and the chain's chat_history are the
\* same sequence after any sequence of drained stream_answer calls,
\* clear_history and truncate_history.
C10_CallerSeesHistory == caller_list = chat_history

====
